---- MODULE Spec2Model ----
(***************************************************************************)
(* Model of the Hetzner Cloud machine driver (package driver).             *)
(*                                                                         *)
(* One Driver record (the Machine Record) is driven by a single host       *)
(* thread.  Every exported method of the driver is an operation; Create,   *)
(* Remove and the power operations are split at their remote calls, so     *)
(* that the order and the number of the calls are visible.  The provider   *)
(* (the hcloud client and the service behind it) is the environment: it    *)
(* holds the registered SSH keys and the servers and answers each call.    *)
(***************************************************************************)
EXTENDS Integers, Sequences, FiniteSets, TLC

VARIABLES
    d,            \* the Driver struct (BaseDriver fields embedded)
    l,            \* local variables of the running method
    pc,           \* position of the host thread inside the running method
    op,           \* the method running, or the last one that ran
    ret,          \* what the last finished method returned: [err, val]
    calls,        \* remote calls issued by the running / last method, in order
    d0,           \* the Driver struct as it was when the method was entered
    ops,          \* number of methods the host has invoked so far
    keys,         \* SSH keys registered at the provider
    servers,      \* servers existing at the provider
    nextKeyId,    \* next id the provider gives to an SSH key
    nextServerId, \* next id the provider gives to a server
    nextKeyPair,  \* number of the next RSA key pair rand.Reader yields
    files,        \* local file system: path -> content
    hist          \* what has happened to this record so far (for the claims)

vars == <<d, l, pc, op, ret, calls, d0, ops, keys, servers,
          nextKeyId, nextServerId, nextKeyPair, files, hist>>

provider == <<keys, servers, nextKeyId, nextServerId>>

-----------------------------------------------------------------------------
(* Bounds of the model *)

\* number of methods the host invokes on the record
MaxOps == 4

\* first ids the provider hands out (it assigns non-zero ids, counting up)
FirstKeyId == 7
FirstServerId == 42

(* Program constants *)

\* variant: the loop stops one round early
MaxPoll_OffByOne == 30 - 1

\* for i := 0; i < 30; i++
MaxPoll == 30

\* tcp://%s:2376
DockerPort == 2376

MachineNames == {"m1"}
StorePaths == {"", "/store"}
Tokens == {"", "tok"}
\* public IPv4 addresses the provider may assign
Addrs == {<<203, 0, 113, 5>>, <<198, 51, 100, 7>>}
\* provider statuses of a server
Statuses == {"running", "off", "initializing"}

-----------------------------------------------------------------------------
(* Pure helpers *)

\* net.IP.String() of a 4-byte address: dotted decimal
IPString(ip) ==
    ToString(ip[1]) \o "." \o ToString(ip[2]) \o "." \o
    ToString(ip[3]) \o "." \o ToString(ip[4])

\* filepath.Join of two elements: empty elements are ignored
Join(a, b) == IF a = "" THEN b ELSE IF b = "" THEN a ELSE a \o "/" \o b

\* fmt.Sprintf("rancher-%s", d.MachineName)
keyName(name) == "rancher-" \o name

\* variant: one file name for every machine, filepath.Join(storePath, "id_rsa")
keyPath_Shared(storePath, name) == Join(storePath, "id_rsa")

\* filepath.Join(d.StorePath, fmt.Sprintf("%s_id_rsa", d.MachineName))
keyPath(storePath, name) == Join(storePath, name \o "_id_rsa")

\* the two halves of the k-th generated RSA key pair
PrivPEM(k) == [kind |-> "RSA PRIVATE KEY", pair |-> k]
PubAuthorizedKey(k) == [kind |-> "ssh-rsa", pair |-> k]

NoFile == [kind |-> "absent", pair |-> 0]
PartialFile == [kind |-> "truncated", pair |-> 0]
FileAt(p) == IF p \in DOMAIN files THEN files[p] ELSE NoFile

NoLocals == [publicKey |-> NoFile, hkey |-> 0, action |-> FALSE, i |-> 0,
             verb |-> ""]

Nil == [err |-> "nil", val |-> ""]
Err(e) == [err |-> e, val |-> ""]

\* one remote call: the verb, the id it is about, the gateway's answer, the id
\* the gateway returned (0 if none) and the credential the client was built with
Call(verb, arg, reply, id) ==
    [verb |-> verb, arg |-> arg, reply |-> reply, id |-> id,
     token |-> d.APIToken]

-----------------------------------------------------------------------------
(* The record *)

\* NewDriver(machineName, storePath)
NewDriver(machineName, storePath) ==
    [MachineName |-> machineName, StorePath |-> storePath, SSHUser |-> "root",
     SSHKeyPath |-> "", IPAddress |-> "", APIToken |-> "",
     ServerID |-> 0, SSHKeyID |-> 0,
     ServerType |-> "", Image |-> "", Region |-> ""]

\* history of the record: the method that ran before the current one and its
\* error; whether Create was ever entered, whether some Create has failed at
\* its createInstance call, whether a poll has observed an address; the ids
\* the gateway returned to the last Create; whether some Create has returned
\* success; how generateSSHKey ended in the last Create
NoHist == [prevOp |-> "", prevErr |-> "nil", created |-> FALSE,
           failedAtCreateServer |-> FALSE, observed |-> FALSE,
           keyId |-> 0, serverId |-> 0, createOk |-> FALSE, gen |-> ""]

Init ==
    /\ \E m \in MachineNames, s \in StorePaths : d = NewDriver(m, s)
    /\ l = NoLocals
    /\ pc = "idle"
    /\ op = "NewDriver"
    /\ ret = Nil
    /\ calls = <<>>
    /\ d0 = d
    /\ ops = 0
    /\ keys = {}
    /\ servers = {}
    /\ nextKeyId = FirstKeyId
    /\ nextServerId = FirstServerId
    /\ nextKeyPair = 1
    /\ files = [p \in {} |-> NoFile]
    /\ hist = NoHist

-----------------------------------------------------------------------------
(* Entering and leaving a method *)

Enter(name) ==
    /\ pc = "idle"
    /\ ops < MaxOps
    /\ ops' = ops + 1
    /\ op' = name
    /\ d0' = d
    /\ calls' = <<>>

\* the history kept while a method is entered
Entered == [hist EXCEPT !.prevOp = op, !.prevErr = ret.err]

Return(r) ==
    /\ pc' = "idle"
    /\ ret' = r
    /\ l' = NoLocals

Goto(p) ==
    /\ pc' = p
    /\ ret' = ret

Running == <<op, d0, ops>>

WriteFile(p, c) ==
    [q \in DOMAIN files \cup {p} |-> IF q = p THEN c ELSE files[q]]

-----------------------------------------------------------------------------
(* The provider gateway: the answers the hcloud client can give *)

\* client.SSHKey.Create: an empty token is rejected, a name can be registered
\* once, and any call can fail on the network
uploadKeyReplies(name) ==
    IF d.APIToken = "" THEN {"Auth"}
    ELSE IF \E k \in keys : k.name = name THEN {"Conflict"}
    ELSE {"ok", "Transient"}

\* client.Server.Create with the key attached; the result may carry an action
createServerReplies(keyId) ==
    IF d.APIToken = "" THEN {"Auth"}
    ELSE IF ~ \E k \in keys : k.id = keyId THEN {"InvalidParameter"}
    ELSE {"ok", "okAction", "Transient"}

\* client.Action.WaitForFunc
waitReplies == {"ok", "ActionFailed"}

\* client.Server.GetByID: an unknown id gives (nil, nil); a server has a
\* status and has a public IPv4 address or none yet
ServerViews == [status : Statuses, ip : Addrs \cup {<<>>}]
getServerReplies(id) ==
    IF d.APIToken = "" THEN {[kind |-> "Auth"]}
    ELSE IF ~ \E s \in servers : s.id = id THEN {[kind |-> "nil"], [kind |-> "Transient"]}
    ELSE {[kind |-> "Transient"]} \cup
         {[kind |-> "srv", status |-> v.status, ip |-> v.ip] : v \in ServerViews}

\* client.Server.DeleteWithResult
deleteServerReplies(id) ==
    IF d.APIToken = "" THEN {"Auth"}
    ELSE IF ~ \E s \in servers : s.id = id THEN {"NotFound"}
    ELSE {"ok", "okAction", "Transient"}

\* client.SSHKey.Delete
deleteKeyReplies(id) ==
    IF d.APIToken = "" THEN {"Auth"}
    ELSE IF ~ \E k \in keys : k.id = id THEN {"NotFound"}
    ELSE {"ok", "Transient"}

\* client.Server.Poweron / Poweroff / Reboot
powerReplies(id) ==
    IF d.APIToken = "" THEN {"Auth"}
    ELSE IF ~ \E s \in servers : s.id = id THEN {"NotFound"}
    ELSE {"ok", "ActionFailed"}

-----------------------------------------------------------------------------
(* SetConfigFromFlags and PreCreateCheck *)

\* the option values the host passes
FlagSets == [token : Tokens, serverType : {"cx11"}, image : {"ubuntu-20.04"},
             location : {"nbg1"}]

SetConfigFromFlags ==
    /\ Enter("SetConfigFromFlags")
    /\ \E opts \in FlagSets :
        /\ d' = [d EXCEPT !.APIToken = opts.token, !.ServerType = opts.serverType,
                          !.Image = opts.image, !.Region = opts.location,
                          !.SSHUser = "root"]
        /\ Return(IF opts.token = "" THEN Err("token required") ELSE Nil)
    /\ hist' = Entered
    /\ UNCHANGED <<provider, nextKeyPair, files>>

PreCreateCheck ==
    /\ Enter("PreCreateCheck")
    /\ Return(IF d.APIToken = "" THEN Err("token required") ELSE Nil)
    /\ hist' = Entered
    /\ UNCHANGED <<d, provider, nextKeyPair, files>>

-----------------------------------------------------------------------------
(* Create *)

\* variant: Create clears the address of the record when it is entered
Create_ResetsAddress ==
    /\ Enter("Create")
    /\ hist' = [Entered EXCEPT !.created = TRUE, !.keyId = 0, !.serverId = 0,
                               !.gen = ""]
    /\ IF d.StorePath = ""
         THEN Return(Err("storePath is empty"))
         ELSE Goto("generateSSHKey") /\ l' = l
    /\ d' = [d EXCEPT !.IPAddress = ""]
    /\ UNCHANGED <<provider, nextKeyPair, files>>

\* Create, up to the call of generateSSHKey
Create ==
    /\ Enter("Create")
    /\ hist' = [Entered EXCEPT !.created = TRUE, !.keyId = 0, !.serverId = 0,
                               !.gen = ""]
    /\ IF d.StorePath = ""
         THEN Return(Err("storePath is empty"))
         ELSE Goto("generateSSHKey") /\ l' = l
    /\ UNCHANGED <<d, provider, nextKeyPair, files>>

\* what can happen inside generateSSHKey
GenOutcomes == {"ok", "rsa", "publicKey", "mkdir", "write"}

\* variant: the error of os.WriteFile is dropped and Create goes on
generateSSHKey_WriteErrIgnored ==
    /\ pc = "generateSSHKey"
    /\ \E out \in GenOutcomes :
        /\ LET path == keyPath(d.StorePath, d.MachineName) IN
           IF d.StorePath = "" \/ out \in {"rsa", "publicKey", "mkdir"} THEN
               /\ Return(Err("generating SSH key"))
               /\ UNCHANGED <<d, nextKeyPair, files>>
           ELSE
               /\ files' = IF out = "write" THEN WriteFile(path, PartialFile)
                                            ELSE WriteFile(path, PrivPEM(nextKeyPair))
               /\ d' = [d EXCEPT !.SSHKeyPath = path]
               /\ l' = [l EXCEPT !.publicKey = PubAuthorizedKey(nextKeyPair)]
               /\ nextKeyPair' = nextKeyPair + 1
               /\ Goto("uploadKey")
        /\ hist' = [hist EXCEPT !.gen = IF d.StorePath = "" THEN "storePath" ELSE out]
    /\ UNCHANGED <<Running, calls, provider>>

\* generateSSHKey and the check of its error in Create
generateSSHKey ==
    /\ pc = "generateSSHKey"
    /\ \E out \in GenOutcomes :
        /\ LET path == keyPath(d.StorePath, d.MachineName) IN
           IF d.StorePath = "" THEN
               /\ Return(Err("generating SSH key"))
               /\ UNCHANGED <<d, nextKeyPair, files>>
           ELSE IF out \in {"rsa", "publicKey", "mkdir"} THEN
               /\ Return(Err("generating SSH key"))
               /\ UNCHANGED <<d, nextKeyPair, files>>
           ELSE IF out = "write" THEN
               \* os.WriteFile failed: the file is untouched or left truncated
               /\ Return(Err("generating SSH key"))
               /\ files' \in {files, WriteFile(path, PartialFile)}
               /\ nextKeyPair' = nextKeyPair + 1
               /\ d' = d
           ELSE
               /\ files' = WriteFile(path, PrivPEM(nextKeyPair))
               /\ d' = [d EXCEPT !.SSHKeyPath = path]
               /\ l' = [l EXCEPT !.publicKey = PubAuthorizedKey(nextKeyPair)]
               /\ nextKeyPair' = nextKeyPair + 1
               /\ Goto("uploadKey")
        /\ hist' = [hist EXCEPT !.gen = IF d.StorePath = "" THEN "storePath" ELSE out]
    /\ UNCHANGED <<Running, calls, provider>>

\* variant: the id of the uploaded key is not kept in the record
Create_uploadKey_NotRecorded ==
    /\ pc = "uploadKey"
    /\ \E r \in uploadKeyReplies(keyName(d.MachineName)) :
        /\ calls' = Append(calls, Call("uploadKey", 0, r, IF r = "ok" THEN nextKeyId ELSE 0))
        /\ IF r = "ok" THEN
              /\ keys' = keys \cup {[id |-> nextKeyId,
                                     name |-> keyName(d.MachineName),
                                     pub |-> l.publicKey]}
              /\ nextKeyId' = nextKeyId + 1
              /\ l' = [l EXCEPT !.hkey = nextKeyId]
              /\ hist' = [hist EXCEPT !.keyId = nextKeyId]
              /\ Goto("createServer")
           ELSE
              /\ Return(Err("creating SSH key"))
              /\ UNCHANGED <<keys, nextKeyId, hist>>
    /\ UNCHANGED <<d, Running, servers, nextServerId, nextKeyPair, files>>

\* client.SSHKey.Create and the check of its error
Create_uploadKey ==
    /\ pc = "uploadKey"
    /\ \E r \in uploadKeyReplies(keyName(d.MachineName)) :
        /\ calls' = Append(calls, Call("uploadKey", 0, r, IF r = "ok" THEN nextKeyId ELSE 0))
        /\ IF r = "ok" THEN
              /\ keys' = keys \cup {[id |-> nextKeyId,
                                     name |-> keyName(d.MachineName),
                                     pub |-> l.publicKey]}
              /\ nextKeyId' = nextKeyId + 1
              /\ l' = [l EXCEPT !.hkey = nextKeyId]
              /\ d' = [d EXCEPT !.SSHKeyID = nextKeyId]
              /\ hist' = [hist EXCEPT !.keyId = nextKeyId]
              /\ Goto("createServer")
           ELSE
              /\ Return(Err("creating SSH key"))
              /\ UNCHANGED <<d, keys, nextKeyId, hist>>
    /\ UNCHANGED <<Running, servers, nextServerId, nextKeyPair, files>>

\* client.Server.Create with SSHKeys: {hkey}, and the check of its error
Create_createServer ==
    /\ pc = "createServer"
    /\ \E r \in createServerReplies(l.hkey) :
        /\ calls' = Append(calls, Call("createServer", l.hkey, r,
                                 IF r \in {"ok", "okAction"} THEN nextServerId ELSE 0))
        /\ IF r \in {"ok", "okAction"} THEN
              /\ servers' = servers \cup
                    {[id |-> nextServerId, name |-> d.MachineName,
                      pub |-> (CHOOSE k \in keys : k.id = l.hkey).pub]}
              /\ nextServerId' = nextServerId + 1
              /\ d' = [d EXCEPT !.ServerID = nextServerId]
              /\ l' = [l EXCEPT !.action = (r = "okAction"), !.i = 0]
              /\ Goto(IF r = "okAction" THEN "waitCreate" ELSE "poll")
              /\ hist' = [hist EXCEPT !.serverId = nextServerId]
           ELSE
              /\ Return(Err("creating server"))
              /\ hist' = [hist EXCEPT !.failedAtCreateServer = TRUE]
              /\ UNCHANGED <<d, servers, nextServerId>>
    /\ UNCHANGED <<Running, keys, nextKeyId, nextKeyPair, files>>

\* variant: the error of the wait on the creation action is dropped
Create_waitAction_ErrIgnored ==
    /\ pc = "waitCreate"
    /\ \E r \in waitReplies :
        /\ calls' = Append(calls, Call("waitAction", d.ServerID, r, 0))
        /\ Goto("poll") /\ l' = l
    /\ UNCHANGED <<d, Running, provider, nextKeyPair, files, hist>>

\* client.Action.WaitForFunc on createResult.Action
Create_waitAction ==
    /\ pc = "waitCreate"
    /\ \E r \in waitReplies :
        /\ calls' = Append(calls, Call("waitAction", d.ServerID, r, 0))
        /\ IF r = "ok" THEN Goto("poll") /\ l' = l
                       ELSE Return(Err("waiting for server creation"))
    /\ UNCHANGED <<d, Running, provider, nextKeyPair, files, hist>>

\* one round of the poll loop: client.Server.GetByID, then break or sleep
Create_poll ==
    /\ pc = "poll"
    /\ l.i < MaxPoll
    /\ \E r \in getServerReplies(d.ServerID) :
        /\ calls' = Append(calls, Call("getServer", d.ServerID,
                                       IF r.kind = "srv" THEN IF r.ip = <<>> THEN "noaddr" ELSE IPString(r.ip)
                                       ELSE r.kind, 0))
        /\ IF r.kind = "nil" THEN
              \* srv.PublicNet on a nil server
              /\ pc' = "crashed" /\ ret' = Err("panic") /\ l' = NoLocals /\ d' = d
           ELSE IF r.kind # "srv" THEN
              /\ Return(Err("fetching server")) /\ d' = d
           ELSE IF r.ip # <<>> THEN
              /\ d' = [d EXCEPT !.IPAddress = IPString(r.ip)]
              /\ l' = l
              /\ Goto("afterPoll")
           ELSE
              /\ d' = d
              /\ l' = [l EXCEPT !.i = l.i + 1]
              /\ Goto(IF l.i + 1 < MaxPoll THEN "poll" ELSE "afterPoll")
        /\ hist' = [hist EXCEPT !.observed = @ \/ (r.kind = "srv" /\ r.ip # <<>>)]
    /\ UNCHANGED <<Running, provider, nextKeyPair, files>>

\* variant: on the timeout the ids are taken out of the record
Create_timeoutCheck_ForgetsIds ==
    /\ pc = "afterPoll"
    /\ Return(IF d.IPAddress = "" THEN Err("no public IPv4 after timeout") ELSE Nil)
    /\ d' = IF d.IPAddress = "" THEN [d EXCEPT !.ServerID = 0, !.SSHKeyID = 0] ELSE d
    /\ hist' = [hist EXCEPT !.createOk = @ \/ d.IPAddress # ""]
    /\ UNCHANGED <<Running, calls, provider, nextKeyPair, files>>

\* if d.IPAddress == "" after the loop
Create_timeoutCheck ==
    /\ pc = "afterPoll"
    /\ Return(IF d.IPAddress = "" THEN Err("no public IPv4 after timeout") ELSE Nil)
    /\ hist' = [hist EXCEPT !.createOk = @ \/ d.IPAddress # ""]
    /\ UNCHANGED <<d, Running, calls, provider, nextKeyPair, files>>

-----------------------------------------------------------------------------
(* Remove *)

\* variant: Remove is done once the server is gone, as in driver.go:120-131
Remove_keyPart_Skipped == Return(Nil)

\* where Remove goes once the server part is done: if d.SSHKeyID != 0
Remove_keyPart ==
    IF d.SSHKeyID # 0 THEN Goto("deleteKey") /\ l' = l ELSE Return(Nil)

\* Remove, up to its first remote call: if d.ServerID != 0
Remove ==
    /\ Enter("Remove")
    /\ hist' = Entered
    /\ IF d.ServerID # 0 THEN Goto("deleteServer") /\ l' = l ELSE Remove_keyPart
    /\ UNCHANGED <<d, provider, nextKeyPair, files>>

\* client.Server.DeleteWithResult and the check of its error
Remove_deleteServer ==
    /\ pc = "deleteServer"
    /\ \E r \in deleteServerReplies(d.ServerID) :
        /\ calls' = Append(calls, Call("deleteServer", d.ServerID, r, 0))
        /\ IF r \in {"ok", "okAction"} THEN
              /\ servers' = {s \in servers : s.id # d.ServerID}
              /\ IF r = "okAction" THEN Goto("waitDelete") /\ l' = l
                                   ELSE Remove_keyPart
           ELSE
              /\ Return(Err("deleting server"))
              /\ servers' = servers
    /\ UNCHANGED <<d, Running, keys, nextKeyId, nextServerId, nextKeyPair, files, hist>>

\* client.Action.WaitForFunc on delRes.Action
Remove_waitAction ==
    /\ pc = "waitDelete"
    /\ \E r \in waitReplies :
        /\ calls' = Append(calls, Call("waitAction", d.ServerID, r, 0))
        /\ IF r = "ok" THEN Remove_keyPart
                       ELSE Return(Err("waiting for server deletion"))
    /\ UNCHANGED <<d, Running, provider, nextKeyPair, files, hist>>

\* variant: a key deletion that fails on the network is tried again
Remove_deleteKey_Retries ==
    /\ pc = "deleteKey"
    /\ \E r \in deleteKeyReplies(d.SSHKeyID) :
        /\ calls' = Append(calls, Call("deleteKey", d.SSHKeyID, r, 0))
        /\ IF r = "ok" THEN
              /\ keys' = {k \in keys : k.id # d.SSHKeyID}
              /\ Return(Nil)
           ELSE IF r = "Transient" /\ Len(calls) < 3 THEN
              /\ Goto("deleteKey") /\ l' = l
              /\ keys' = keys
           ELSE
              /\ Return(Err("deleting SSH key"))
              /\ keys' = keys
    /\ UNCHANGED <<d, Running, servers, nextKeyId, nextServerId, nextKeyPair, files, hist>>

\* client.SSHKey.Delete and the check of its error
Remove_deleteKey ==
    /\ pc = "deleteKey"
    /\ \E r \in deleteKeyReplies(d.SSHKeyID) :
        /\ calls' = Append(calls, Call("deleteKey", d.SSHKeyID, r, 0))
        /\ IF r = "ok" THEN
              /\ keys' = {k \in keys : k.id # d.SSHKeyID}
              /\ Return(Nil)
           ELSE
              /\ Return(Err("deleting SSH key"))
              /\ keys' = keys
    /\ UNCHANGED <<d, Running, servers, nextKeyId, nextServerId, nextKeyPair, files, hist>>

-----------------------------------------------------------------------------
(* Accessors *)

\* a method that only reads the record and returns r
Accessor(name, r) ==
    /\ Enter(name)
    /\ hist' = Entered
    /\ Return(r)
    /\ UNCHANGED <<d, provider, nextKeyPair, files>>

\* variant: the address is returned whether it is resolved or not
GetIPResult_Unchecked == [err |-> "nil", val |-> d.IPAddress]

GetIPResult ==
    IF d.IPAddress = "" THEN Err("IP address not available")
    ELSE [err |-> "nil", val |-> d.IPAddress]

GetIP == Accessor("GetIP", GetIPResult)

GetSSHHostname == Accessor("GetSSHHostname", GetIPResult)

GetSSHKeyPath == Accessor("GetSSHKeyPath", [err |-> "nil", val |-> d.SSHKeyPath])

GetSSHUsername == Accessor("GetSSHUsername", [err |-> "nil", val |-> d.SSHUser])

DriverName == Accessor("DriverName", [err |-> "nil", val |-> "hetzner"])

\* variant: the SSH form of the endpoint, ssh://root@<ip>:22
GetURLResult_SSH ==
    IF d.IPAddress = "" THEN Err("no IP address available yet")
    ELSE [err |-> "nil", val |-> "ssh://root@" \o d.IPAddress \o ":22"]

GetURLResult ==
    IF d.IPAddress = "" THEN Err("no IP address available yet")
    ELSE [err |-> "nil",
          val |-> "tcp://" \o d.IPAddress \o ":" \o ToString(DockerPort)]

GetURL == Accessor("GetURL", GetURLResult)

-----------------------------------------------------------------------------
(* GetState *)

\* switch srv.Status
stateOf(status) ==
    CASE status = "running" -> "Running"
      [] status = "off" -> "Stopped"
      [] OTHER -> "None"

GetState ==
    /\ pc = "idle"
    /\ ops < MaxOps
    /\ ops' = ops + 1
    /\ op' = "GetState"
    /\ d0' = d
    /\ hist' = Entered
    /\ l' = NoLocals
    /\ IF d.ServerID = 0 THEN
          /\ calls' = <<>>
          /\ pc' = "idle"
          /\ ret' = [err |-> "server ID not set", val |-> "Error"]
       ELSE \E r \in getServerReplies(d.ServerID) :
          /\ calls' = <<Call("getServer", d.ServerID,
                              IF r.kind = "srv" THEN r.status ELSE r.kind, 0)>>
          /\ IF r.kind = "nil" THEN
                \* srv.Status on a nil server
                pc' = "crashed" /\ ret' = Err("panic")
             ELSE IF r.kind # "srv" THEN
                pc' = "idle" /\ ret' = [err |-> "fetching server", val |-> "Error"]
             ELSE
                pc' = "idle" /\ ret' = [err |-> "nil", val |-> stateOf(r.status)]
    /\ UNCHANGED <<d, provider, nextKeyPair, files>>

-----------------------------------------------------------------------------
(* Start, Stop, Restart, Kill *)

\* a power method, up to its first remote call: if d.ServerID == 0
Power(name, verb) ==
    /\ Enter(name)
    /\ hist' = Entered
    /\ IF d.ServerID = 0 THEN Return(Err("server ID not set"))
                         ELSE Goto("powerGet") /\ l' = [l EXCEPT !.verb = verb]
    /\ UNCHANGED <<d, provider, nextKeyPair, files>>

Start == Power("Start", "powerOn")

Stop == Power("Stop", "powerOff")

Restart == Power("Restart", "reboot")

\* Kill: return d.Stop()
Kill == Power("Kill", "powerOff")

\* variant: a power method drops the instance id when the server is gone
Power_getServer_DropsId ==
    /\ pc = "powerGet"
    /\ \E r \in getServerReplies(d.ServerID) :
        /\ calls' = Append(calls, Call("getServer", d.ServerID, r.kind, 0))
        /\ d' = IF r.kind = "nil" THEN [d EXCEPT !.ServerID = 0] ELSE d
        /\ IF r.kind = "nil" THEN Return(Nil)
           ELSE IF r.kind # "srv" THEN Return(Err("cannot fetch server"))
           ELSE Goto("powerAct") /\ l' = l
    /\ UNCHANGED <<Running, provider, nextKeyPair, files, hist>>

\* client.Server.GetByID in a power method; a nil server ends it with nil
Power_getServer ==
    /\ pc = "powerGet"
    /\ \E r \in getServerReplies(d.ServerID) :
        /\ calls' = Append(calls, Call("getServer", d.ServerID, r.kind, 0))
        /\ IF r.kind = "nil" THEN Return(Nil)
           ELSE IF r.kind # "srv" THEN Return(Err("cannot fetch server"))
           ELSE Goto("powerAct") /\ l' = l
    /\ UNCHANGED <<d, Running, provider, nextKeyPair, files, hist>>

\* client.Server.Poweron / Poweroff / Reboot and the check of its error
Power_action ==
    /\ pc = "powerAct"
    /\ \E r \in powerReplies(d.ServerID) :
        /\ calls' = Append(calls, Call(l.verb, d.ServerID, r, 0))
        /\ Return(IF r = "ok" THEN Nil ELSE Err(l.verb))
    /\ UNCHANGED <<d, Running, provider, nextKeyPair, files, hist>>

-----------------------------------------------------------------------------
Next ==
    \/ SetConfigFromFlags
    \/ PreCreateCheck
    \/ Create
    \/ generateSSHKey
    \/ Create_uploadKey
    \/ Create_createServer
    \/ Create_waitAction
    \/ Create_poll
    \/ Create_timeoutCheck
    \/ Remove
    \/ Remove_deleteServer
    \/ Remove_waitAction
    \/ Remove_deleteKey
    \/ GetIP
    \/ GetSSHHostname
    \/ GetSSHKeyPath
    \/ GetSSHUsername
    \/ DriverName
    \/ GetURL
    \/ GetState
    \/ Start
    \/ Stop
    \/ Restart
    \/ Kill
    \/ Power_getServer
    \/ Power_action

Spec == Init /\ [][Next]_vars

\* the steps inside a method: each gateway or file-system call returns
Step ==
    \/ generateSSHKey
    \/ Create_uploadKey
    \/ Create_createServer
    \/ Create_waitAction
    \/ Create_poll
    \/ Create_timeoutCheck
    \/ Remove_deleteServer
    \/ Remove_waitAction
    \/ Remove_deleteKey
    \/ Power_getServer
    \/ Power_action

\* the driver under the assumption that every call it is blocked in returns
FairSpec == Spec /\ WF_vars(Step)

-----------------------------------------------------------------------------
(* Vocabulary of the properties *)

\* the getInstance queries of the running / last method, in order
GetCalls == SelectSeq(calls, LAMBDA c : c.verb = "getServer")

\* the textual form of an address the provider can assign
IsAddr(x) == x \in {IPString(a) : a \in Addrs}

\* the first m queries returned a server without a public IPv4
Quiet(g, m) == \A k \in 1..m : g[k].reply = "noaddr"

\* answers with which a remote call has succeeded
Succeeded(c) == c.reply \in {"ok", "okAction", "noaddr"} \/ IsAddr(c.reply)

CreateDone == op = "Create" /\ pc = "idle"
RemoveDone == op = "Remove" /\ pc = "idle"

TimeoutErr == Err("no public IPv4 after timeout")

-----------------------------------------------------------------------------
\* C1: the address poll of Create is bounded at 30 getInstance queries.  On a
\* record that holds no address when Create is entered (a fresh record in
\* particular): Create never issues more than 30 queries; if the first n-1
\* queries return no address and the n-th returns one (1 <= n <= 30), Create
\* returns success with exactly that address recorded, after exactly n
\* queries; if every query returns no address, Create ends after exactly 30
\* queries with the provisioning-timeout error.
C1_PollBounded ==
    LET g == GetCalls
        n == Len(g)
    IN  (op = "Create" /\ d0.IPAddress = "") =>
          /\ n <= 30
          /\ (pc = "idle" /\ n >= 1 /\ Quiet(g, n - 1) /\ IsAddr(g[n].reply)) =>
                (ret = Nil /\ d.IPAddress = g[n].reply)
          /\ (pc = "idle" /\ n >= 1 /\ Quiet(g, n)) =>
                (n = 30 /\ ret = TimeoutErr)

\* a fresh record whose Create got its address on the 30th query
C1_Witness ==
    /\ CreateDone
    /\ d0.ServerID = 0 /\ d0.SSHKeyID = 0 /\ d0.IPAddress = ""
    /\ Len(GetCalls) = 30
    /\ Quiet(GetCalls, 29)
    /\ IsAddr(GetCalls[30].reply)
    /\ ret = Nil
    /\ d.IPAddress = GetCalls[30].reply

\* C2: from every starting state of the record, a Create whose 30 queries all
\* return no address fails with the provisioning-timeout error, and Create
\* returns success only if a query of that invocation returned an address.
C2_TimeoutFromEveryState ==
    LET g == GetCalls
    IN  CreateDone =>
          /\ (Len(g) = 30 /\ Quiet(g, 30)) => ret = TimeoutErr
          /\ ret = Nil => \E k \in 1..Len(g) : IsAddr(g[k].reply)

\* C3: Remove on a record with both ids set, to which the gateway answers
\* only success or NotFound, completes without error.
C3_RemoveIdempotent ==
    ( /\ RemoveDone
      /\ d0.ServerID # 0 /\ d0.SSHKeyID # 0
      /\ \A k \in 1..Len(calls) : calls[k].reply \in {"ok", "okAction", "NotFound"} )
    => ret = Nil

\* C4: in Remove on a record with both ids set, when deleteInstance or the
\* wait on its action fails (other than NotFound), deleteKey is still issued
\* for the recorded key id, and the failure is reported.
C4_DeletionsIndependent ==
    ( /\ RemoveDone
      /\ d0.ServerID # 0 /\ d0.SSHKeyID # 0
      /\ \E k \in 1..Len(calls) :
            /\ calls[k].verb \in {"deleteServer", "waitAction"}
            /\ calls[k].reply \in {"Transient", "ActionFailed"} )
    => /\ \E k \in 1..Len(calls) :
            calls[k].verb = "deleteKey" /\ calls[k].arg = d0.SSHKeyID
       /\ ret # Nil

\* C5: the remote calls of one Create are strictly ordered.  createInstance
\* is issued only after an uploadKey of the same invocation succeeded, and
\* is passed the key id that uploadKey returned; a getInstance query is
\* issued only after createInstance succeeded and, when it returned an
\* action, after the wait on that action succeeded; and no call is issued
\* after a call that failed.
C5_CreateOrdered ==
    op = "Create" =>
      \A k \in 1..Len(calls) :
        /\ \A j \in 1..(k - 1) : Succeeded(calls[j])
        /\ calls[k].verb = "createServer" =>
              \E j \in 1..(k - 1) :
                  /\ calls[j].verb = "uploadKey"
                  /\ calls[j].reply = "ok"
                  /\ calls[j].id = calls[k].arg
        /\ calls[k].verb = "waitAction" =>
              \E j \in 1..(k - 1) :
                  calls[j].verb = "createServer" /\ calls[j].reply = "okAction"
        /\ calls[k].verb = "getServer" =>
              \E j \in 1..(k - 1) :
                  /\ calls[j].verb = "createServer"
                  /\ \/ calls[j].reply = "ok"
                     \/ /\ calls[j].reply = "okAction"
                        /\ j + 1 < k
                        /\ calls[j + 1].verb = "waitAction"
                        /\ calls[j + 1].reply = "ok"

\* a Create that went through upload, creation, wait and a first query
C5_Witness ==
    /\ op = "Create"
    /\ Len(calls) >= 4
    /\ calls[1].verb = "uploadKey"
    /\ calls[2].verb = "createServer"
    /\ calls[3].verb = "waitAction"
    /\ calls[4].verb = "getServer"

\* C6: the remote ids of the record.  Before the first Create both are zero;
\* when a Create has returned success both are non-zero; the instance id is
\* never set without the key id; and the key id is set with the instance id
\* zero only after a Create has failed at createInstance (or while a Create
\* is between its uploadKey and its createInstance).
C6_IdsPaired ==
    /\ ~ hist.created => (d.ServerID = 0 /\ d.SSHKeyID = 0)
    /\ (CreateDone /\ ret = Nil) => (d.ServerID # 0 /\ d.SSHKeyID # 0)
    /\ d.ServerID # 0 => d.SSHKeyID # 0
    /\ (d.SSHKeyID # 0 /\ d.ServerID = 0) =>
          \/ hist.failedAtCreateServer
          \/ (op = "Create" /\ pc = "createServer")

\* a Create has returned success on a record on which an earlier Create had
\* failed at createInstance
C6_Witness ==
    /\ CreateDone
    /\ ret = Nil
    /\ hist.failedAtCreateServer
    /\ d.ServerID # 0
    /\ d.SSHKeyID # 0

\* C7 as claimed: the address is empty until a poll has observed an address,
\* and once it is non-empty no later step changes it.
C7_AddressImmutable ==
    /\ [](d.IPAddress = "" \/ hist.observed)
    /\ [][d.IPAddress # "" => d.IPAddress' = d.IPAddress]_vars

\* C7 as amended: the address is empty until a poll has observed an address;
\* the only step that changes it is a poll step of Create that observes an
\* address, which sets it to that (non-empty) address, so that it is never
\* emptied again and no other method changes it.
C7_AddressSetOnlyByPoll ==
    /\ [](d.IPAddress = "" \/ hist.observed)
    /\ [][d.IPAddress' # d.IPAddress =>
            /\ op = "Create" /\ pc = "poll"
            /\ Len(calls') = Len(calls) + 1
            /\ calls'[Len(calls')].verb = "getServer"
            /\ IsAddr(calls'[Len(calls')].reply)
            /\ d.IPAddress' = calls'[Len(calls')].reply]_vars

\* a later Create has replaced an address that was already resolved
C7_Witness ==
    /\ CreateDone
    /\ d0.IPAddress # ""
    /\ d.IPAddress # ""
    /\ d.IPAddress # d0.IPAddress

\* C8: no remote call is issued with an empty credential.
C8_NoCallWithoutCredential ==
    \A k \in 1..Len(calls) : calls[k].token # ""

\* C9: a Create that fails on the exhausted poll leaves in the record the
\* instance id createInstance returned and the key id uploadKey returned;
\* the Remove that follows starts with deleteInstance, issues deleteInstance
\* and deleteKey for these two ids only, and when its calls all succeed it has
\* issued both and neither resource is left at the provider.
C9_TimeoutKeepsIds ==
    /\ (CreateDone /\ ret = TimeoutErr) =>
          /\ hist.serverId # 0 /\ hist.keyId # 0
          /\ d.ServerID = hist.serverId
          /\ d.SSHKeyID = hist.keyId
    /\ (op = "Remove" /\ hist.prevOp = "Create" /\ hist.prevErr = TimeoutErr.err) =>
          /\ \A k \in 1..Len(calls) :
                /\ calls[k].verb \in {"deleteServer", "waitAction", "deleteKey"}
                /\ calls[k].verb = "deleteServer" => calls[k].arg = hist.serverId
                /\ calls[k].verb = "deleteKey" => calls[k].arg = hist.keyId
          /\ Len(calls) >= 1 => calls[1].verb = "deleteServer"
          /\ (pc = "idle" /\ \A k \in 1..Len(calls) : Succeeded(calls[k])) =>
                /\ \E k \in 1..Len(calls) : calls[k].verb = "deleteServer"
                /\ \E k \in 1..Len(calls) : calls[k].verb = "deleteKey"
                /\ ret = Nil
          /\ (pc = "idle" /\ ret = Nil) =>
                /\ ~ \E sv \in servers : sv.id = hist.serverId
                /\ ~ \E ky \in keys : ky.id = hist.keyId

\* a Remove after a timed-out Create has deleted both resources
C9_Witness ==
    /\ RemoveDone
    /\ hist.prevOp = "Create"
    /\ hist.prevErr = TimeoutErr.err
    /\ ret = Nil
    /\ Len(calls) >= 2
    /\ servers = {}
    /\ keys = {}

\* the second of two Creates in a row, the first of which succeeded
SecondCreate == op = "Create" /\ hist.prevOp = "Create" /\ hist.prevErr = "nil"

\* the private-key file of the machine, at its deterministic path
MachineKeyFile == FileAt(d.StorePath \o "/" \o d.MachineName \o "_id_rsa")

\* C10 as claimed: a second Create in a row, whose key generation succeeds
\* and which meets no network, action or credential failure, succeeds,
\* records another instance id and leaves the second key in the key file.
C10_SecondCreateSucceeds ==
    ( /\ SecondCreate
      /\ pc = "idle"
      /\ Len(calls) >= 1
      /\ \A k \in 1..Len(calls) :
            calls[k].reply \notin {"Transient", "ActionFailed", "Auth"} )
    => /\ ret = Nil
       /\ d.ServerID # d0.ServerID
       /\ MachineKeyFile = PrivPEM(nextKeyPair - 1)

\* C10 as amended: a second Create in a row overwrites the key file as soon
\* as its key generation succeeds, and is then refused at uploadKey, the key
\* name still being registered: it issues no other call, returns an error,
\* creates no instance, and the record keeps the ids of the first Create,
\* whose instance carries another key than the one now in the file.
C10_SecondCreateRefused ==
    SecondCreate =>
      /\ d.ServerID = d0.ServerID
      /\ d.SSHKeyID = d0.SSHKeyID
      /\ nextServerId = d0.ServerID + 1
      /\ pc = "idle" => ret # Nil
      /\ Len(calls) >= 1 =>
            /\ Len(calls) = 1
            /\ calls[1].verb = "uploadKey"
            /\ calls[1].reply = "Conflict"
            /\ MachineKeyFile = PrivPEM(nextKeyPair - 1)
            /\ \A sv \in servers :
                  sv.id = d0.ServerID => sv.pub # PubAuthorizedKey(nextKeyPair - 1)

\* the second Create has been refused at uploadKey
C10_Witness ==
    /\ SecondCreate
    /\ pc = "idle"
    /\ Len(calls) = 1
    /\ calls[1].reply = "Conflict"
    /\ MachineKeyFile = PrivPEM(nextKeyPair - 1)
    /\ \E sv \in servers : sv.id = d.ServerID

\* C11: GetIP and GetSSHHostname fail with the address-unavailable error as
\* long as no Create on the record has returned success, whatever the step at
\* which the Creates so far have failed, and return the address of the
\* record, an address a poll has observed, without error once one has.
C11_AddressUnavailable ==
    (op \in {"GetIP", "GetSSHHostname"} /\ pc = "idle") =>
        IF hist.createOk
        THEN /\ ret.err = "nil"
             /\ ret.val = d.IPAddress
             /\ IsAddr(ret.val)
        ELSE ret = Err("IP address not available")

\* GetIP on a record whose only Create has timed out
C11_Witness ==
    /\ op = "GetIP"
    /\ pc = "idle"
    /\ hist.prevOp = "Create"
    /\ hist.prevErr = TimeoutErr.err
    /\ ~ hist.createOk
    /\ d.ServerID # 0
    /\ ret = Err("IP address not available")

\* C12: GetURL returns an error whenever the address of the record is empty
\* and otherwise "tcp://" + address + ":2376".  End to end: configured with
\* "tok", "cx11", "ubuntu-20.04", "nbg1", a Create to which the gateway
\* returns key id 7, instance id 42 and 203.0.113.5 on the first query
\* succeeds with ServerID = 42 and SSHKeyID = 7, and the GetURL after it
\* returns "tcp://203.0.113.5:2376".
C12_EndpointURL ==
    /\ (op = "GetURL" /\ pc = "idle") =>
          IF d.IPAddress = ""
          THEN ret.err # "nil" /\ ret.val = ""
          ELSE ret = [err |-> "nil", val |-> "tcp://" \o d.IPAddress \o ":2376"]
    /\ ( /\ CreateDone
         /\ d.APIToken = "tok" /\ d.ServerType = "cx11"
         /\ d.Image = "ubuntu-20.04" /\ d.Region = "nbg1"
         /\ hist.keyId = 7 /\ hist.serverId = 42
         /\ Len(GetCalls) = 1 /\ GetCalls[1].reply = "203.0.113.5" )
       => /\ ret = Nil
          /\ d.ServerID = 42 /\ d.SSHKeyID = 7
          /\ d.IPAddress = "203.0.113.5"
    /\ (op = "GetURL" /\ pc = "idle" /\ d.IPAddress = "203.0.113.5") =>
          ret.val = "tcp://203.0.113.5:2376"

\* the end-to-end scenario has run up to its GetURL
C12_Witness ==
    /\ op = "GetURL"
    /\ pc = "idle"
    /\ hist.prevOp = "Create"
    /\ hist.prevErr = "nil"
    /\ d.APIToken = "tok"
    /\ d.ServerID = 42
    /\ d.SSHKeyID = 7
    /\ ret = [err |-> "nil", val |-> "tcp://203.0.113.5:2376"]

\* C13: the state query is total.  GetState always returns; on a record
\* whose instance id is zero, or whose instance cannot be fetched (an id the
\* provider does not know included), it returns the Error state with an
\* error; otherwise it returns, without error, Running for "running",
\* Stopped for "off" and None for every other status.
C13_StateQueryTotal ==
    op = "GetState" =>
      /\ pc = "idle"
      /\ IF d0.ServerID = 0 \/ calls[1].reply \notin Statuses
         THEN ret.err # "nil" /\ ret.val = "Error"
         ELSE /\ ret.err = "nil"
              /\ ret.val = CASE calls[1].reply = "running" -> "Running"
                             [] calls[1].reply = "off" -> "Stopped"
                             [] OTHER -> "None"

PowerOps == {"Start", "Stop", "Restart", "Kill"}

PowerVerbs == {"powerOn", "powerOff", "reboot"}

\* C14: a power operation on a record whose instance id is zero or whose
\* instance does not exist at the provider fails and issues no power action;
\* on an existing instance it fetches the instance and then issues at most
\* the one action that corresponds to it (power-off for Stop and for Kill).
C14_PowerNeedsInstance ==
    (op \in PowerOps /\ pc = "idle") =>
      /\ (d0.ServerID = 0 \/ ~ \E sv \in servers : sv.id = d0.ServerID) =>
            /\ ret # Nil
            /\ \A k \in 1..Len(calls) : calls[k].verb \notin PowerVerbs
      /\ \A k \in 1..Len(calls) :
            /\ k = 1 => calls[k].verb = "getServer"
            /\ k = 2 => calls[k].verb = CASE op = "Start" -> "powerOn"
                                          [] op = "Restart" -> "reboot"
                                          [] OTHER -> "powerOff"
            /\ k <= 2

ReadOps == PowerOps \cup {"GetState", "GetIP", "GetSSHHostname", "GetSSHKeyPath",
                          "GetSSHUsername", "DriverName", "GetURL"}

\* C15: GetState, Start, Stop, Restart, Kill and the accessors leave every
\* field of the record as it was when they were entered, at each of their
\* steps and however they end; GetState issues no remote call other than
\* getInstance.
C15_ReadOpsKeepRecord ==
    op \in ReadOps =>
      /\ d = d0
      /\ op = "GetState" =>
            \A k \in 1..Len(calls) : calls[k].verb = "getServer"
      /\ op \notin PowerOps \cup {"GetState"} => calls = <<>>

\* a power operation has found its server gone and has ended
C15_Witness ==
    /\ op = "Stop"
    /\ pc = "idle"
    /\ Len(calls) = 1
    /\ calls[1].reply = "nil"
    /\ d = d0
    /\ d.ServerID # 0

\* number of calls of the running / last method with the given verbs
Count(verbs) == Len(SelectSeq(calls, LAMBDA c : c.verb \in verbs))

\* C16: no operation retries a remote call.  One Create issues at most one
\* uploadKey, one createInstance and 30 getInstance; one Remove at most one
\* deleteInstance and one deleteKey; one power operation at most one
\* getInstance and one power action; and a failing remote call of Create is
\* its last call and ends it with an error.
C16_NoRetry ==
    /\ op = "Create" =>
          /\ Count({"uploadKey"}) <= 1
          /\ Count({"createServer"}) <= 1
          /\ Count({"waitAction"}) <= 1
          /\ Count({"getServer"}) <= 30
          /\ \A k \in 1..Len(calls) :
                ~ Succeeded(calls[k]) =>
                    /\ k = Len(calls)
                    /\ pc = "idle"
                    /\ ret # Nil
    /\ op = "Remove" =>
          /\ Count({"deleteServer"}) <= 1
          /\ Count({"waitAction"}) <= 1
          /\ Count({"deleteKey"}) <= 1
    /\ op \in PowerOps =>
          /\ Count({"getServer"}) <= 1
          /\ Count(PowerVerbs) <= 1

\* a Remove whose key deletion failed on the network has ended there
C16_Witness ==
    /\ RemoveDone
    /\ Len(calls) >= 2
    /\ calls[Len(calls)].verb = "deleteKey"
    /\ calls[Len(calls)].reply = "Transient"
    /\ ret = Err("deleting SSH key")

\* C17: every operation of the plugin contract returns to its caller: under
\* the assumption that each gateway call returns, a method that has been
\* entered reaches its return, and Create polls at most 30 times.
C17_EveryOperationReturns ==
    /\ [](op = "Create" => Count({"getServer"}) <= 30)
    /\ (pc # "idle") ~> (pc = "idle")

\* ways in which generating or persisting the key pair fails
GenFailures == {"rsa", "publicKey", "mkdir", "write"}

\* C18: a key-provisioning failure ends Create with an error before any
\* remote call.  When the storage directory is empty, or generating or
\* persisting the key has failed, Create has returned an error, has issued no
\* remote call at all, and the instance id, key id and address of the record
\* are those it was entered with; with an empty storage directory the key
\* path is the one it was entered with too, and no step of that Create
\* touches a file.
C18_KeyFailureFatal ==
    /\ []((op = "Create" /\ (d0.StorePath = "" \/ hist.gen \in GenFailures)) =>
            /\ pc = "idle"
            /\ ret # Nil
            /\ calls = <<>>
            /\ d.ServerID = d0.ServerID
            /\ d.SSHKeyID = d0.SSHKeyID
            /\ d.IPAddress = d0.IPAddress
            /\ d0.StorePath = "" => d.SSHKeyPath = d0.SSHKeyPath)
    /\ [][(op' = "Create" /\ d0'.StorePath = "") => files' = files]_vars

\* a Create on a provisioned record has failed to write its key file and
\* has left it truncated
C18_Witness ==
    /\ CreateDone
    /\ hist.gen = "write"
    /\ MachineKeyFile = PartialFile
    /\ ret = Err("generating SSH key")
    /\ calls = <<>>
    /\ d.ServerID # 0
    /\ d.IPAddress # ""

\* C19: no remote resource is orphaned.  The provider holds only what the
\* Creates of this record have made, so: whenever a Remove has returned
\* success, the provider holds no instance and no SSH-key registration.
C19_NoOrphan ==
    (RemoveDone /\ ret = Nil) => (servers = {} /\ keys = {})

\* a Remove has succeeded after a Create that had uploaded its key and had
\* then been refused the instance
C19_Witness ==
    /\ RemoveDone
    /\ ret = Nil
    /\ hist.prevOp = "Create"
    /\ hist.prevErr = "creating server"
    /\ Len(calls) = 1
    /\ calls[1].verb = "deleteKey"
    /\ calls[1].arg = hist.keyId
    /\ hist.keyId # 0
    /\ keys = {}

\* C20 as claimed: between operations, if the record names an instance and
\* the provider has it, the file at the record's key path holds the private
\* half of the public key that instance was created with.
C20_KeyMatchesInstance ==
    pc = "idle" =>
      \A sv \in servers :
         (d.ServerID # 0 /\ sv.id = d.ServerID) =>
             FileAt(d.SSHKeyPath) = PrivPEM(sv.pub.pair)

====
